---- MODULE Spec2Model ----
(***************************************************************************)
(* A model of the Poloniex API wrapper (poloniex/__init__.py and           *)
(* poloniex/ratelimit.py): caller threads invoke commands on dispatcher    *)
(* instances that share one RateLimitEnforcer ("coach") and one nonce      *)
(* lock.  Each call runs the _retry loop around _make_request, which waits *)
(* on the coach, and on the private path takes the nonce lock, increments  *)
(* the nonce, signs and posts, and hands the response to _handleResponse.  *)
(*                                                                         *)
(* poloniex/custom_threading.py (Semaphore with clear(), RecurrentTimer)   *)
(* is not part of the sources; the semaphore and the timer are modelled    *)
(* from the design description, the timer with the semantics of a          *)
(* threading.Thread (ident is None until started; start() may be called    *)
(* once).                                                                  *)
(***************************************************************************)
EXTENDS Integers, Sequences, FiniteSets, TLC

\* ---------------------------------------------------------------- bounds
MaxRetries == 2      \* length of the configured delay sequence
CallLimit == 3       \* callLimit of the shared RateLimitEnforcer
StartNonce == 0      \* start_nonce handed to the private constructor
NonceJump == 2       \* how far ahead of the provided nonce the server is

\* two concurrent caller threads, one call each
Threads == {1, 2}
\* Two dispatcher instances of one class, built with the same arguments.
\* They are interchangeable, so the first thread is taken to use the first.
Instances == {"a", "b"}
InstancesOf(t) == IF t = 1 THEN {"a"} ELSE Instances

\* ------------------------------------------------------- program constants
defaultRetries == <<0, 2, 5, 30>>
retries == SubSeq(defaultRetries, 1, MaxRetries)

PublicCommands == {"returnTicker", "returnTradeHistory"}
PrivateCommands == {"buy", "returnTradeHistory"}
PublicUrl == "http://poloniex.com/public"
PrivateUrl == "http://poloniex.com/tradingApi"

Kinds == {"PoloniexPublicAPI", "PoloniexPrivateAPI", "Poloniex"}
\* the command names callers try: each is unknown to one of the two base
\* classes
CommandInputs == {"returnTicker", "buy"}
Entries == {"attr", "call"}

\* ------------------------------------------------------------ text tokens
\* A server error message is a sequence of tokens: words, "." and numbers.
W(s) == [w |-> s]
Num(n) == [n |-> n]
Words(ss) == [j \in DOMAIN ss |-> W(ss[j])]

\* the message as it is, letter case kept
LowerForgotten(msg) == msg

\* str.lower(), token by token
LowerWord(s) ==
  CASE s = "Please" -> "please"
    [] s = "Connection" -> "connection"
    [] s = "Invalid" -> "invalid"
    [] s = "Nonce" -> "nonce"
    [] s = "You" -> "you"
    [] OTHER -> s
Lower(msg) ==
  [j \in DOMAIN msg |-> IF "w" \in DOMAIN msg[j] THEN W(LowerWord(msg[j].w)) ELSE msg[j]]

\* the `in` operator on strings: needle occurs as a contiguous run of msg
Contains(msg, needle) ==
  \E s \in 0..(Len(msg) - Len(needle)) :
    \A j \in 1..Len(needle) : msg[s + j] = needle[j]

\* the last number of the message: the nonce that was provided
ParseProvided(msg) == msg[Len(msg) - 1].n

\* error.split('.')[0].split()[-1], then int()
FirstSentence(msg) ==
  LET dots == {j \in DOMAIN msg : msg[j] = W(".")}
      stop == IF dots = {} THEN Len(msg) + 1
              ELSE CHOOSE j \in dots : \A l \in dots : j <= l
  IN SubSeq(msg, 1, stop - 1)
ParseNonce(msg) == FirstSentence(msg)[Len(FirstSentence(msg))].n

NonceMessage(m, n) ==
  Words(<<"Nonce", "must", "be", "greater", "than">>) \o <<Num(m), W(".")>>
    \o Words(<<"You", "provided">>) \o <<Num(n), W(".")>>
TryAgainMessage ==
  Words(<<"Connection", "timed", "out", ".", "Please", "try", "again", ".">>)
InvalidOrderMessage == Words(<<"Invalid", "order", ".">>)

VARIABLES
  kind,           \* class of the dispatcher instances
  hasKey,         \* the instances' key is configured
  hasSecret,      \* the instances' secret is configured
  lockGiven,      \* a nonce_lock was handed to the constructors
  nonce,          \* _nonce of each instance
  lockHolder,     \* threads inside `with self.nonce_lock`
  available,      \* value of the coach's semaphore
  timerStarted,   \* the coach's timer thread runs (its ident is set)
  pc,             \* where each caller thread is
  call,           \* the call a thread makes: instance, command, entry point
  idx,            \* position of the _retry loop in chain(retries, [None])
  cur,            \* args['nonce'] of the thread's current attempt
  sends,          \* requests the call has handed to the session
  permits,        \* semaphore acquisitions the call has made
  slept,          \* delays the call has slept, in order
  req,            \* the request the thread handed to the session last
  lastResp,       \* the response the call received last
  result,         \* what the call returned or raised
  lastIssued,     \* per instance: the nonce assigned to a request last
  lastWire,       \* per instance: the nonce of the request sent last
  resyncPending,  \* _nonce was overwritten since the last assignment
  windowCount     \* acquisitions that returned since the last tick

cfgVars == <<kind, hasKey, hasSecret, lockGiven>>
gateVars == <<available, timerStarted, windowCount>>
nonceVars == <<nonce, lockHolder, lastIssued, lastWire, resyncPending>>
threadVars ==
  <<pc, call, idx, cur, sends, permits, slept, req, lastResp, result>>
vars == <<cfgVars, gateVars, nonceVars, threadVars>>

NoCall == [inst |-> "a", cmd |-> "", entry |-> ""]
NoResp == [label |-> "none", raised |-> FALSE, decodable |-> FALSE,
           hasError |-> FALSE, error |-> <<>>]
NoResult == [exc |-> "pending", text |-> <<>>]
NoReq == [url |-> "", method |-> "", nonce |-> <<>>, signed |-> FALSE]

Init ==
  /\ kind \in Kinds
  /\ hasKey \in BOOLEAN
  /\ hasSecret \in BOOLEAN
  /\ lockGiven \in BOOLEAN
  \* PoloniexPublicAPI.__init__ takes no key, secret or nonce_lock
  /\ kind = "PoloniexPublicAPI" => ~hasKey /\ ~hasSecret /\ ~lockGiven
  /\ nonce = [i \in Instances |-> StartNonce]
  /\ lockHolder = {}
  /\ available = CallLimit
  /\ timerStarted = FALSE
  /\ windowCount = 0
  /\ pc = [t \in Threads |-> "idle"]
  /\ call = [t \in Threads |-> NoCall]
  /\ idx = [t \in Threads |-> 1]
  /\ cur = [t \in Threads |-> StartNonce]
  /\ sends = [t \in Threads |-> 0]
  /\ permits = [t \in Threads |-> 0]
  /\ slept = [t \in Threads |-> <<>>]
  /\ req = [t \in Threads |-> NoReq]
  /\ lastResp = [t \in Threads |-> NoResp]
  /\ result = [t \in Threads |-> NoResult]
  /\ lastIssued = [i \in Instances |-> StartNonce]
  /\ lastWire = [i \in Instances |-> StartNonce]
  /\ resyncPending = [i \in Instances |-> FALSE]

\* ------------------------------------------------- command validation
COMMANDS(k) ==
  CASE k = "PoloniexPublicAPI" -> PublicCommands
    [] k = "PoloniexPrivateAPI" -> PrivateCommands
    [] k = "Poloniex" -> PublicCommands \cup PrivateCommands

\* PoloniexAPI.__getattr__
BaseGetattr(k, item) ==
  IF item \in COMMANDS(k) THEN <<>> ELSE Words(<<"Invalid", "Command!">>)

\* PoloniexPrivateAPI.__getattr__
PrivateGetattr(k, item) ==
  IF ~hasKey \/ ~hasSecret
  THEN Words(<<"An", "Api", "Key", "and", "Secret", "needed!">>)
  ELSE BaseGetattr(k, item)

\* attribute lookup of a command name on an instance of class k: the text of
\* the AttributeError it raises, or <<>> when it returns partial(self, item)
Getattr(k, item) ==
  CASE k = "PoloniexPublicAPI" -> BaseGetattr(k, item)
    [] k = "PoloniexPrivateAPI" -> PrivateGetattr(k, item)
    [] k = "Poloniex" ->
         IF item \in PrivateCommands THEN PrivateGetattr(k, item)
         ELSE BaseGetattr(k, item)

\* the dict literal of __call__: a later entry replaces an earlier one with
\* the same key
UrlTable(k) ==
  ((k = "PoloniexPrivateAPI") :> PrivateUrl) @@ ((k = "PoloniexPublicAPI") :> PublicUrl)

\* which _make_request runs
MakeRequestPath(k, cmd) ==
  CASE k = "PoloniexPublicAPI" -> "public"
    [] k = "PoloniexPrivateAPI" -> "private"
    [] k = "Poloniex" -> IF cmd \in PrivateCommands THEN "private" ELSE "public"

PathOf(t) == MakeRequestPath(kind, call[t].cmd)

\* ------------------------------------------------------------ _retry
\* the chain with the delays taken from the end of the sequence
DelayChainReversed ==
  [j \in 1..(Len(retries) + 1) |->
     IF j <= Len(retries) THEN <<retries[Len(retries) + 1 - j]>> ELSE <<>>]

\* itertools.chain(self.retries, [None]): <<d>> is the delay d, <<>> is None
DelayChain ==
  [j \in 1..(Len(retries) + 1) |-> IF j <= Len(retries) THEN <<retries[j]>> ELSE <<>>]

\* ------------------------------------------------------ _handleResponse
\* What session.get/post followed by _handleResponse does with a response:
\* the exception raised ("none": the decoded body is returned), its text, and
\* the value written to _nonce (<<>>: none).
RequestProblem == Words(<<"ConnectionError">>)
IsNonceError(resp) ==
  Contains(resp.error, Words(<<"Nonce", "must", "be", "greater">>))
\* every reported error taken for a request to try again
IsTryAgainAlways(resp) == TRUE

IsTryAgain(resp) ==
  Contains(Lower(resp.error), Words(<<"please", "try", "again">>))
HandleResponse(resp) ==
  IF resp.raised
  THEN [exc |-> "RequestException", text |-> RequestProblem, force |-> <<>>]
  ELSE IF ~resp.decodable
  THEN [exc |-> "PoloniexError",
        text |-> Words(<<"Invalid", "json", "response", "returned">>),
        force |-> <<>>]
  ELSE IF ~resp.hasError
  THEN [exc |-> "none", text |-> <<>>, force |-> <<>>]
  ELSE IF IsNonceError(resp)
  THEN [exc |-> "RequestException", text |-> <<W("PoloniexError")>> \o resp.error,
        force |-> <<ParseNonce(resp.error)>>]
  ELSE IF IsTryAgain(resp)
  THEN [exc |-> "RequestException", text |-> <<W("PoloniexError")>> \o resp.error,
        force |-> <<>>]
  ELSE [exc |-> "PoloniexError", text |-> resp.error, force |-> <<>>]

\* --------------------------------------------------------- the server
Json(label, error) ==
  [label |-> label, raised |-> FALSE, decodable |-> TRUE,
   hasError |-> error # <<>>, error |-> error]
\* What can come back for the request thread t has in flight.  A nonce error
\* that answers a request carrying a nonce n names the minimum the server
\* holds, which is n or more: here n + NonceJump.  Nothing in the client ties
\* the text of an answer to the kind of request, so a request without a nonce
\* can be answered with a nonce error as well.
Responses(t) ==
  {[label |-> "transport", raised |-> TRUE, decodable |-> FALSE,
    hasError |-> FALSE, error |-> <<>>],
   [label |-> "badjson", raised |-> FALSE, decodable |-> FALSE,
    hasError |-> FALSE, error |-> <<>>],
   Json("ok", <<>>),
   Json("tryagain", TryAgainMessage),
   Json("app", InvalidOrderMessage)}
  \cup {Json("nonce", NonceMessage(req[t].nonce[j] + NonceJump, req[t].nonce[j])) :
          j \in DOMAIN req[t].nonce}
  \cup (IF req[t].nonce = <<>>
        THEN {Json("nonce", NonceMessage(StartNonce + NonceJump, StartNonce))}
        ELSE {})

\* ------------------------------------------------------------ actions
\* an __exit__ that hands the permit back
CoachExitReleases(a, raised) == a + 1

\* an __exit__ that hands the permit back when the block raised
CoachExitReleasesOnError(a, raised) == IF raised THEN a + 1 ELSE a

\* RateLimitEnforcer.__exit__(t, v, tb) is `pass`: the semaphore's value a
\* after the with block is left, by return or by exception
CoachExit(a, raised) == a

\* a retry that starts again inside `with self.coach`
RetryInsideCoach(t) == IF PathOf(t) = "private" THEN "lock" ELSE "send"

\* where a retry starts: _retry calls func again, the whole _make_request
RetryFrom(t) == "wait"

Finish(t, exc, text) ==
  /\ pc' = [pc EXCEPT ![t] = "done"]
  /\ result' = [result EXCEPT ![t] = [exc |-> exc, text |-> text]]
  /\ cur' = [cur EXCEPT ![t] = StartNonce]
  /\ req' = [req EXCEPT ![t] = NoReq]

Goto(t, where) ==
  /\ pc' = [pc EXCEPT ![t] = where]
  /\ UNCHANGED result

\* A caller invokes command c on instance i, as an attribute (i.c()) or by
\* calling the instance (i(c)): __getattr__ when used, then __call__ up to
\* the first _make_request of the _retry loop.
Invoke(t, i, c, e) ==
  /\ pc[t] = "idle"
  /\ call' = [call EXCEPT ![t] = [inst |-> i, cmd |-> c, entry |-> e]]
  /\ IF e = "attr" /\ Getattr(kind, c) # <<>>
     THEN Finish(t, "AttributeError", Getattr(kind, c))
     ELSE IF TRUE \notin DOMAIN UrlTable(kind)
     THEN Finish(t, "KeyError", Words(<<"True">>))
     ELSE Goto(t, "wait") /\ UNCHANGED <<cur, req>>
  /\ UNCHANGED <<cfgVars, gateVars, nonceVars, idx, sends, permits, slept, lastResp>>

\* RateLimitEnforcer.wait up to the semaphore: start() is called when the
\* timer's ident is set, that is on a timer that runs already, which a thread
\* refuses with a RuntimeError.
WaitEnter(t) ==
  /\ pc[t] = "wait"
  /\ IF timerStarted
     THEN Finish(t, "RuntimeError",
                 Words(<<"threads", "can", "only", "be", "started", "once">>))
     ELSE Goto(t, "acquire") /\ UNCHANGED <<cur, req>>
  /\ UNCHANGED <<cfgVars, gateVars, nonceVars, call, idx, sends, permits, slept,
                 lastResp>>

\* wait() without its semaphore.acquire()
AcquireWithoutSemaphore(t) ==
  /\ pc[t] = "acquire"
  /\ windowCount' = windowCount + 1
  /\ permits' = [permits EXCEPT ![t] = @ + 1]
  /\ Goto(t, IF PathOf(t) = "private" THEN "lock" ELSE "send")
  /\ UNCHANGED <<cfgVars, available, timerStarted, nonceVars, call, idx, cur,
                 sends, slept, req, lastResp>>

\* semaphore.acquire() returns; the public path goes on to the session, the
\* private path to the nonce lock.
Acquire(t) ==
  /\ pc[t] = "acquire"
  /\ available > 0
  /\ available' = available - 1
  /\ windowCount' = windowCount + 1
  /\ permits' = [permits EXCEPT ![t] = @ + 1]
  /\ Goto(t, IF PathOf(t) = "private" THEN "lock" ELSE "send")
  /\ UNCHANGED <<cfgVars, timerStarted, nonceVars, call, idx, cur, sends, slept,
                 req, lastResp>>

\* a lock that excludes nobody
LockFreeAlways == TRUE

\* the nonce lock can be entered
LockFree == lockHolder = {}

\* `with self.nonce_lock:` and `self._nonce += 1`.  None is no context
\* manager: entering it raises.
LockAndIncrement(t) ==
  /\ pc[t] = "lock"
  /\ IF ~lockGiven
     THEN /\ Finish(t, "AttributeError", Words(<<"__enter__">>))
          /\ available' = CoachExit(available, TRUE)
          /\ UNCHANGED <<nonce, lockHolder>>
     ELSE /\ LockFree
          /\ lockHolder' = lockHolder \cup {t}
          /\ nonce' = [nonce EXCEPT ![call[t].inst] = @ + 1]
          /\ Goto(t, "locked")
          /\ UNCHANGED <<cur, req, available>>
  /\ UNCHANGED <<cfgVars, timerStarted, windowCount, lastIssued, lastWire,
                 resyncPending, call, idx, sends, permits, slept, lastResp>>

\* a lock that stays taken when the response has been handled
LockKeptAfterResponse(t) == lockHolder

\* `with self.nonce_lock` is left after _handleResponse, by return or raise
LockAfterResponse(t) == lockHolder \ {t}

\* a lock that stays taken when signing raises
LockKeptAfterSignFailure(t) == lockHolder

\* `with self.nonce_lock` is left by the exception of hmac.new
LockAfterSignFailure(t) == lockHolder \ {t}

\* a with block that ends before the request is sent
LockDroppedAfterSigning(t) == lockHolder \ {t}

\* the nonce lock is left when the with block is
LockAfterSigning(t) == lockHolder

\* args['nonce'] = self._nonce, and the Sign and Key headers; hmac.new
\* raises a TypeError on a secret of None, which leaves the with blocks.
AssignAndSign(t) ==
  LET i == call[t].inst IN
  /\ pc[t] = "locked"
  /\ lastIssued' = [lastIssued EXCEPT ![i] = nonce[i]]
  /\ resyncPending' = [resyncPending EXCEPT ![i] = FALSE]
  /\ IF ~hasSecret
     THEN /\ Finish(t, "TypeError", Words(<<"hmac", "key">>))
          /\ lockHolder' = LockAfterSignFailure(t)
          /\ available' = CoachExit(available, TRUE)
     ELSE /\ Goto(t, "send")
          /\ cur' = [cur EXCEPT ![t] = nonce[i]]
          /\ lockHolder' = LockAfterSigning(t)
          /\ UNCHANGED <<req, available>>
  /\ UNCHANGED <<cfgVars, timerStarted, windowCount, nonce, lastWire, call, idx,
                 sends, permits, slept, lastResp>>

\* session.get(**payload) or session.post(**payload) begins
Send(t) ==
  LET i == call[t].inst
      private == PathOf(t) = "private"
  IN
  /\ pc[t] = "send"
  /\ req' = [req EXCEPT ![t] =
               [url |-> UrlTable(kind)[TRUE],
                method |-> IF private THEN "post" ELSE "get",
                nonce |-> IF private THEN <<cur[t]>> ELSE <<>>,
                signed |-> private]]
  /\ lastWire' = [lastWire EXCEPT ![i] = IF private THEN cur[t] ELSE @]
  /\ sends' = [sends EXCEPT ![t] = @ + 1]
  /\ Goto(t, "inflight")
  /\ UNCHANGED <<cfgVars, gateVars, nonce, lockHolder, lastIssued, resyncPending,
                 call, idx, cur, permits, slept, lastResp>>

\* The session call ends with response r: _handleResponse, the exits of the
\* with blocks, and the except clause of the _retry loop with its sleep.
Respond(t, r) ==
  LET i == call[t].inst
      o == HandleResponse(r)
      delay == DelayChain[idx[t]]
  IN
  /\ pc[t] = "inflight"
  /\ r \in Responses(t)
  /\ lastResp' = [lastResp EXCEPT ![t] = r]
  /\ nonce' = IF o.force # <<>> THEN [nonce EXCEPT ![i] = o.force[1]] ELSE nonce
  /\ resyncPending' =
       IF o.force # <<>> THEN [resyncPending EXCEPT ![i] = TRUE] ELSE resyncPending
  /\ lockHolder' = IF PathOf(t) = "private" THEN LockAfterResponse(t) ELSE lockHolder
  /\ available' = CoachExit(available, o.exc # "none")
  /\ IF o.exc = "none"
     THEN /\ Finish(t, "returned", <<>>)
          /\ UNCHANGED <<idx, slept>>
     ELSE IF o.exc # "RequestException"
     THEN /\ Finish(t, o.exc, o.text)
          /\ UNCHANGED <<idx, slept>>
     ELSE IF delay = <<>>
     THEN /\ Finish(t, "RetryException", Words(<<"retries", "exhausted">>) \o o.text)
          /\ UNCHANGED <<idx, slept>>
     ELSE /\ slept' = [slept EXCEPT ![t] = Append(@, delay[1])]
          /\ idx' = [idx EXCEPT ![t] = @ + 1]
          /\ Goto(t, RetryFrom(t))
          /\ UNCHANGED <<cur, req>>
  /\ UNCHANGED <<cfgVars, timerStarted, windowCount, lastIssued, lastWire, call,
                 sends, permits>>

\* The owner of the coach starts its timer thread (coach.timer.start()).
TimerStartedByOwner ==
  /\ ~timerStarted
  /\ timerStarted' = TRUE
  /\ UNCHANGED <<cfgVars, available, windowCount, nonceVars, threadVars>>

\* The timer fires: semaphore.clear() puts the semaphore back to callLimit.
Tick ==
  /\ timerStarted
  /\ available' = CallLimit
  /\ windowCount' = 0
  /\ UNCHANGED <<cfgVars, timerStarted, nonceVars, threadVars>>

ThreadStep(t) ==
  \/ \E i \in InstancesOf(t), c \in CommandInputs, e \in Entries : Invoke(t, i, c, e)
  \/ WaitEnter(t)
  \/ Acquire(t)
  \/ LockAndIncrement(t)
  \/ AssignAndSign(t)
  \/ Send(t)
  \/ \E r \in Responses(t) : Respond(t, r)

Next ==
  \/ \E t \in Threads : ThreadStep(t)
  \/ TimerStartedByOwner
  \/ Tick

Spec == Init /\ [][Next]_vars

\* Scheduling: every thread that can take a step eventually does, and a
\* started timer keeps firing.  Nothing obliges anyone to start the timer.
FairSpec ==
  Spec /\ WF_vars(Tick) /\ \A t \in Threads : WF_vars(ThreadStep(t))

\* ============================================================== claims
Transient(label) == label \in {"transport", "tryagain", "nonce"}
\* str(problem) of the RequestException a response stands for
ExpectedProblem(resp) ==
  IF resp.raised THEN RequestProblem ELSE <<W("PoloniexError")>> \o resp.error
Delays == Len(retries)

\* C1: on one client, under every interleaving of its callers, each nonce
\* handed out is greater than the one handed out before it, and is exactly
\* one more unless the counter was forcibly resynchronised in between.
C1_NoncesIncrease ==
  [][\A t \in Threads :
       pc[t] = "locked" /\ pc'[t] # "locked" =>
         /\ lastIssued'[call[t].inst] > lastIssued[call[t].inst]
         /\ ~resyncPending[call[t].inst] =>
              lastIssued'[call[t].inst] = lastIssued[call[t].inst] + 1]_vars

\* three nonces handed out to two threads of one client, none after a resync
C1_Witness ==
  /\ call[1].inst = call[2].inst
  /\ sends[1] = 2 /\ lastResp[1].label = "transport"
  /\ pc[2] = "inflight" /\ lastResp[2].label = "none"
  /\ lastIssued[call[1].inst] = StartNonce + 3

C3_RetryPolicy ==
  \A t \in Threads :
    /\ slept[t] = SubSeq(retries, 1, Len(slept[t]))
    /\ idx[t] = Len(slept[t]) + 1
    /\ sends[t] \in {idx[t] - 1, idx[t]}
    /\ result[t].exc = "RetryException" =>
         /\ sends[t] = Delays + 1
         /\ slept[t] = retries
         /\ Transient(lastResp[t].label)
         /\ result[t].text =
              Words(<<"retries", "exhausted">>) \o ExpectedProblem(lastResp[t])
    /\ result[t].exc = "returned" =>
         /\ lastResp[t].label = "ok"
         /\ sends[t] = Len(slept[t]) + 1
    /\ lastResp[t].label = "transport" /\ pc[t] = "done" =>
         \/ result[t].exc = "RetryException"
         \/ result[t].exc = "RuntimeError" /\ sends[t] <= Delays
    /\ pc[t] = "done" => ~ENABLED ThreadStep(t)

\* a call that failed on every attempt, beside one that succeeded on its
\* second
C3_Witness ==
  /\ result[1].exc = "RetryException" /\ lastResp[1].label = "transport"
  /\ result[2].exc = "returned" /\ sends[2] = 2

\* the minimum a nonce error names
ServerMinimum(resp) == resp.error[6].n

\* C4: an undecodable body, or a reported error that is neither a nonce
\* error nor a request to try again, ends the call at once with a
\* PoloniexError: the attempt that received it is the last, and no delay, no
\* permit and no nonce is consumed after it.
C4_FatalNotRetried ==
  \A t \in Threads :
    lastResp[t].label \in {"badjson", "app"} =>
      /\ pc[t] = "done"
      /\ result[t].exc = "PoloniexError"
      /\ result[t].text =
           IF lastResp[t].label = "app" THEN lastResp[t].error
           ELSE Words(<<"Invalid", "json", "response", "returned">>)
      /\ sends[t] = Len(slept[t]) + 1
      /\ permits[t] = sends[t]
      /\ ~ENABLED ThreadStep(t)

\* "Invalid order." answers the first attempt of a call: one attempt, one
\* permit, no sleep
C4_Witness ==
  /\ lastResp[1].label = "app"
  /\ lastResp[1].error = InvalidOrderMessage
  /\ sends[1] = 1 /\ permits[1] = 1 /\ slept[1] = <<>>
  /\ pc[2] = "acquire"

\* the command of a call is not one of the instance's, or needs the
\* credentials and they are not there
Authenticated(c) == c \in PrivateCommands /\ kind # "PoloniexPublicAPI"
ConfigInvalid(t) ==
  \/ call[t].cmd \notin COMMANDS(kind)
  \/ Authenticated(call[t].cmd) /\ (~hasKey \/ ~hasSecret)

\* C5: a call of an unknown command, or of an authenticated command without
\* key or secret, fails at once with the configuration error, with no permit
\* acquired and no request sent, by either entry point.
C5_ConfigFailsFast ==
  \A t \in Threads :
    pc[t] # "idle" /\ ConfigInvalid(t) =>
      /\ pc[t] = "done"
      /\ result[t].exc = "AttributeError"
      /\ permits[t] = 0
      /\ sends[t] = 0

\* C6: after a nonce error that answers an authenticated request and names
\* the minimum m, the counter is at least m,
\* the call goes on to another attempt while delays remain, and that attempt
\* carries a nonce above m.
C6_NonceResync ==
  \A t \in Threads :
    lastResp[t].label = "nonce" /\ PathOf(t) = "private" =>
      /\ nonce[call[t].inst] >= ServerMinimum(lastResp[t])
      /\ pc[t] = "done" =>
           \/ result[t].exc = "RetryException" /\ sends[t] = Delays + 1
           \/ result[t].exc = "RuntimeError" /\ sends[t] <= Delays
      /\ pc[t] \in {"send", "inflight"} => cur[t] > ServerMinimum(lastResp[t])

\* the attempt after a nonce error is in flight with the nonce above the
\* minimum the server named
C6_Witness ==
  /\ lastResp[1].label = "nonce"
  /\ pc[1] = "inflight"
  /\ ServerMinimum(lastResp[1]) = StartNonce + 1 + NonceJump
  /\ req[1].nonce = <<StartNonce + 2 + NonceJump>>

\* how the call stands after a failure that is retried: it has slept one
\* delay per failed attempt and is in the next attempt, or the delays were
\* spent and it raised retries exhausted
RetriedLikeTransportFailure(t) ==
  /\ pc[t] = "done" =>
       \/ /\ result[t].exc = "RetryException"
          /\ sends[t] = Delays + 1
          /\ slept[t] = retries
       \/ result[t].exc = "RuntimeError" /\ Len(slept[t]) = sends[t]
  /\ pc[t] = "inflight" => Len(slept[t]) = sends[t] - 1
  /\ pc[t] \notin {"done", "inflight"} => Len(slept[t]) = sends[t]

\* C7: an error saying "please try again", in any letter case, is handled as
\* a failure of the transport is: the next delay is slept and the request
\* retried, and retries exhausted is raised once the delays are spent.
C7_TryAgainRetried ==
  \A t \in Threads :
    lastResp[t].label \in {"tryagain", "transport"} => RetriedLikeTransportFailure(t)

\* a call that was told to try again on every attempt, and one in its second
\* attempt after being told so
C7_Witness ==
  /\ lastResp[1].label = "tryagain" /\ result[1].exc = "RetryException"
  /\ lastResp[2].label = "tryagain" /\ pc[2] = "inflight" /\ slept[2] = <<retries[1]>>

\* C8: every caller that waits in acquire gets its permit in the end.
C8_AcquireReturns ==
  \A t \in Threads : (pc[t] = "acquire") ~> (pc[t] # "acquire")

\* C9: on the combined dispatcher, with credentials and nonce lock in place,
\* a command is executed: the call does not fail before the transport, a
\* command of the private set is posted signed with a nonce to the trading
\* URL, and a public one is fetched without nonce from the public URL.
C9_CombinedDispatch ==
  \A t \in Threads :
    kind = "Poloniex" /\ hasKey /\ hasSecret /\ lockGiven /\ pc[t] # "idle"
    /\ call[t].cmd \in COMMANDS(kind) =>
      /\ result[t].exc # "KeyError"
      /\ pc[t] = "inflight" =>
           IF call[t].cmd \in PrivateCommands
           THEN req[t].signed /\ req[t].nonce # <<>> /\ req[t].url = PrivateUrl
           ELSE ~req[t].signed /\ req[t].nonce = <<>> /\ req[t].url = PublicUrl

\* C10: the requests of one client reach the session in the order of their
\* nonces: a send never begins with a nonce below one sent before.
C10_SendsInNonceOrder ==
  [][\A t \in Threads :
       pc[t] = "send" /\ pc'[t] = "inflight" /\ PathOf(t) = "private" =>
         lastWire'[call[t].inst] > lastWire[call[t].inst]]_vars

\* two threads of one client have both sent
C10_Witness ==
  /\ call[1].inst = call[2].inst
  /\ PathOf(1) = "private" /\ PathOf(2) = "private"
  /\ sends[1] > 0 /\ sends[2] > 0
  /\ pc[2] = "inflight"

\* C11: the nonce counter of a client never goes down: every step leaves it
\* where it was or above, the step that sets it to the minimum named by the
\* server included.
C11_NonceNeverDecreases ==
  [][\A i \in Instances : nonce'[i] >= nonce[i]]_vars

\* a nonce error has just set the counter of client "a", above the nonce the
\* request carried
C11_Witness ==
  /\ resyncPending["a"]
  /\ lastResp[1].label = "nonce"
  /\ PathOf(1) = "private"
  /\ nonce["a"] = ServerMinimum(lastResp[1])
  /\ nonce["a"] > lastIssued["a"]

\* C12: a private client built without a nonce lock of the caller's still
\* carries its authenticated calls to the transport: with key and secret in
\* place, an attempt that holds its permit is not ended by the nonce lock,
\* and a call that ends after taking a permit has sent a request.
C12_LockNotRequired ==
  \A t \in Threads :
    /\ kind = "PoloniexPrivateAPI" /\ ~lockGiven /\ hasKey /\ hasSecret
    /\ pc[t] = "done" /\ permits[t] > 0
    => /\ sends[t] > 0
       /\ result[t].text # Words(<<"__enter__">>)

\* C13: two private clients of one identity that share the nonce lock send,
\* between them, strictly increasing nonces: a send carries a nonce above the
\* last nonce sent by either client.
C13_SharedSequence ==
  [][\A t \in Threads :
       /\ kind = "PoloniexPrivateAPI" /\ lockGiven
       /\ pc[t] = "send" /\ pc'[t] = "inflight"
       => \A j \in Instances : lastWire'[call[t].inst] > lastWire[j]]_vars

\* C14: the first acquire() starts the gate's timer: once a caller has passed
\* the timer test of wait(), on its way to the semaphore or beyond, the timer
\* runs.
C14_FirstAcquireStartsTimer ==
  (\E t \in Threads : pc[t] = "acquire" \/ permits[t] > 0) => timerStarted

\* C15: every attempt at the transport, retries included, comes after a
\* permit of its own, and on the authenticated path carries a nonce above
\* the nonce of the call's attempt before it; so no caller has sent more
\* requests than it has acquired permits.
C15_PermitAndNoncePerAttempt ==
  /\ [](\A t \in Threads : sends[t] <= permits[t])
  /\ [][\A t \in Threads :
          pc[t] = "send" /\ pc'[t] = "inflight" =>
            /\ sends'[t] = permits[t]
            /\ PathOf(t) = "private" /\ req[t].nonce # <<>> =>
                 req'[t].nonce[1] > req[t].nonce[1]]_vars

\* the first caller is at the transport on a retry, with a permit for each of
\* its attempts and a nonce above the first attempt's, while the second
\* caller has sent on a permit of its own
C15_Witness ==
  /\ pc[1] = "inflight" /\ sends[1] = 2 /\ permits[1] = 2
  /\ PathOf(1) = "private"
  /\ req[1].nonce[1] > StartNonce + 1
  /\ sends[2] = 1 /\ permits[2] = 1

\* C16: the permits available are never below zero nor above the call limit:
\* they are the call limit less the permits taken since the last tick, and a
\* step of the timer leaves exactly the call limit, whatever was left before.
C16_AvailableInRange ==
  /\ [](/\ available \in 0..CallLimit
        /\ available = CallLimit - windowCount)
  /\ [][pc' = pc /\ timerStarted' = timerStarted => available' = CallLimit]_vars

\* the callers have taken every permit of a window and a tick has put the
\* call limit back
C16_Witness ==
  /\ timerStarted
  /\ permits[1] + permits[2] = CallLimit
  /\ available = CallLimit

\* C17: the nonce counter of a client is written only by a caller that holds
\* the nonce lock: a step that changes the counter is taken by a caller of
\* that client that holds the lock before the step or takes it in the step.
C17_WritesUnderLock ==
  [][\A i \in Instances :
       nonce'[i] # nonce[i] =>
         \E t \in Threads :
           /\ call[t].inst = i
           /\ pc'[t] # pc[t]
           /\ t \in lockHolder \cup lockHolder']_vars

\* C18: a caller that waits at the gate does not hold the nonce lock, the
\* permit being taken before the lock; so a caller that has its permit and
\* wants the lock finds it free or held by a caller that is past the gate
\* and able to go on to release it, however few permits are left.
C18_NoLockWhileWaiting ==
  /\ \A t \in Threads : pc[t] \in {"wait", "acquire"} => t \notin lockHolder
  /\ \A t \in Threads :
       pc[t] = "lock" /\ lockGiven =>
         \/ ENABLED LockAndIncrement(t)
         \/ \E h \in lockHolder :
              ENABLED (AssignAndSign(h) \/ Send(h)
                       \/ \E r \in Responses(h) : Respond(h, r))

\* the gate is exhausted with one caller blocked at it, while the other
\* holds the lock with its request in flight
C18_Witness ==
  /\ available = 0
  /\ pc[1] = "acquire"
  /\ pc[2] = "inflight" /\ lockHolder = {2}

\* C19: the nonce lock is given up on every way out of an authenticated
\* attempt: whoever holds it is between taking it and the end of the response
\* handling, so with no attempt in that stretch the lock is free.
C19_LockReleasedOnExit ==
  /\ \A h \in lockHolder : pc[h] \in {"locked", "send", "inflight"}
  /\ Cardinality(lockHolder) <= 1
  /\ (\A t \in Threads : pc[t] \in {"idle", "wait", "acquire", "lock", "done"})
       => LockFree

\* one authenticated call has ended by an error answer and the other is on
\* its way to a retry after a failed attempt, both attempts made with the
\* lock, and the lock is free
C19_Witness ==
  /\ LockFree
  /\ pc[1] = "done" /\ result[1].exc = "PoloniexError" /\ PathOf(1) = "private"
  /\ pc[2] = "wait" /\ sends[2] > 0 /\ PathOf(2) = "private"

\* C20: the end of an attempt, by return or by exception, gives no permit
\* back: the permits available grow only by a tick of the started timer,
\* which takes no caller anywhere, and a step that ends an attempt leaves
\* them as they were.
C20_ExitKeepsPermit ==
  [][/\ available' > available =>
          timerStarted /\ pc' = pc /\ available' = CallLimit
     /\ \A t \in Threads :
          pc[t] \in {"lock", "locked", "inflight"} /\ pc'[t] \in {"wait", "done"}
            => available' = available]_vars

\* one caller's attempt has returned and the other's has raised, in a window
\* without a tick, and the two permits are still gone
C20_Witness ==
  /\ ~timerStarted
  /\ pc[1] = "done" /\ result[1].exc = "returned"
  /\ pc[2] = "done" /\ result[2].exc = "PoloniexError"
  /\ permits[1] + permits[2] = 2
  /\ available = CallLimit - 2

====
